---------------------------- MODULE Spec2Model ----------------------------
(***************************************************************************)
(* A model of src/platform_impl/windows/util.rs of tao: the cursor         *)
(* visibility latch, the lazily resolved optional user32 entry points, the *)
(* client-to-outer geometry adjustment, maximize/restore and the icon      *)
(* decoder.  Native calls are modelled by what the Win32 documentation     *)
(* says they do; their failures are inputs chosen by the environment.      *)
(***************************************************************************)
EXTENDS Integers, Sequences, FiniteSets

(* ------------------------------ bounds --------------------------------- *)

\* threads that may call set_cursor_hidden / touch a lazy static at once
NumThreads == 2
\* total number of set_cursor_hidden calls in a run
MaxCalls == 5
\* cap on the number of get_function_impl runs per symbol
MaxLoads == 2
\* small client sizes (0..MaxSize) x (0..MaxSize); (800, 600) is added to them
MaxSize == 1
\* window border widths 0..MaxBorder and title bar heights 0..MaxTitle
MaxBorder == 1
MaxTitle == 2
\* windows whose show state is modelled
NumWindows == 2
\* icon buffers of 0..MaxBufLen bytes, directory offsets 0..MaxOffset
MaxBufLen == 3
MaxOffset == 2

Threads == 1..NumThreads
Windows == 1..NumWindows

VARIABLES
  \* ---- set_cursor_hidden ----
  HIDDEN,        \* static HIDDEN: AtomicBool
  pc,            \* per thread: "idle", "called" (before the swap), "swapped"
  hidden,        \* per thread: the argument of the call in flight
  changed,       \* per thread: the local `changed`
  callSeq,       \* history: the arguments in the order the calls were made
  swapOrder,     \* history: the arguments in the order the swaps took effect
  nShowCursor,   \* number of winuser::ShowCursor invocations
  displayCount,  \* the OS cursor display counter
  \* ---- lazy_static capability table ----
  cell,          \* per symbol: [state, value] of the lazy static
  libPresent,    \* environment: LoadLibraryA("user32.dll") would succeed
  symPresent,    \* environment: per symbol, GetProcAddress would succeed
  cpc,           \* per thread: <<"idle">>, <<"load", s>>, <<"getproc", s>>, <<"wait", s>>
  loads,         \* per symbol: number of get_function_impl runs
  seen,          \* per symbol: the outcomes any access has observed
  \* ---- geometry ----
  hasMenu,       \* GetMenu(hwnd) is not null
  style,         \* chrome the window's style stands for: [border, title]
  dpi,           \* what GetDpiForWindow(hwnd) returns
  winSize,       \* outer size of the window, <<cx, cy>>
  panicked,      \* the calling thread has panicked
  last,          \* record of the most recent operation and the native calls it made
  \* ---- show state ----
  visible,       \* per window: IsWindowVisible
  showCmd,       \* per window: WINDOWPLACEMENT.showCmd
  restoreMax,    \* per window: WPF_RESTORETOMAXIMIZED
  \* ---- icon decoder ----
  icon           \* record of the most recent get_hicon_from_buffer call

cursorVars == <<HIDDEN, pc, hidden, changed, callSeq, swapOrder, nShowCursor, displayCount>>
capVars == <<cell, libPresent, symPresent, cpc, loads, seen>>
geomVars == <<hasMenu, style, dpi, winSize, panicked, last>>
showVars == <<visible, showCmd, restoreMax>>
vars == <<cursorVars, capVars, geomVars, showVars, icon>>

\* Option<T>: None is the empty sequence, Some(x) the one-element sequence
None == <<>>
Some(x) == <<x>>

(* ========================= set_cursor_hidden =========================== *)

InitCursor ==
  /\ HIDDEN = FALSE
  /\ pc = [t \in Threads |-> "idle"]
  /\ hidden = [t \in Threads |-> FALSE]
  /\ changed = [t \in Threads |-> FALSE]
  /\ callSeq = <<>>
  /\ swapOrder = <<>>
  /\ nShowCursor = 0
  /\ displayCount = 0

\* a mutated flag test: every call counts as a change
ChangedAlways(prev, new) == TRUE

\* HIDDEN.swap(hidden, SeqCst) ^ hidden
Changed(prev, new) == prev # new

\* a mutated argument: ShowCursor(hidden)
ShowCursorArgSame(h) == h

\* !hidden as BOOL
ShowCursorArg(h) == ~h

\* winuser::ShowCursor: increments the display counter when bShow, else decrements
ShowCursor(count, bShow) == IF bShow THEN count + 1 ELSE count - 1

\* a thread enters set_cursor_hidden(b)
CallSetCursorHidden(t, b) ==
  /\ pc[t] = "idle"
  /\ Len(callSeq) < MaxCalls
  /\ pc' = [pc EXCEPT ![t] = "called"]
  /\ hidden' = [hidden EXCEPT ![t] = b]
  /\ callSeq' = Append(callSeq, b)
  /\ UNCHANGED <<HIDDEN, changed, swapOrder, nShowCursor, displayCount>>

\* a mutated swap: the flag is loaded and never stored
SwapLoadOnly(t) ==
  /\ pc[t] = "called"
  /\ changed' = [changed EXCEPT ![t] = Changed(HIDDEN, hidden[t])]
  /\ swapOrder' = Append(swapOrder, hidden[t])
  /\ pc' = [pc EXCEPT ![t] = "swapped"]
  /\ UNCHANGED <<HIDDEN, hidden, callSeq, nShowCursor, displayCount>>

\* let changed = HIDDEN.swap(hidden, Ordering::SeqCst) ^ hidden;  one atomic step
Swap(t) ==
  /\ pc[t] = "called"
  /\ changed' = [changed EXCEPT ![t] = Changed(HIDDEN, hidden[t])]
  /\ HIDDEN' = hidden[t]
  /\ swapOrder' = Append(swapOrder, hidden[t])
  /\ pc' = [pc EXCEPT ![t] = "swapped"]
  /\ UNCHANGED <<hidden, callSeq, nShowCursor, displayCount>>

\* if changed { ShowCursor(!hidden as BOOL) }, then return
ShowAndReturn(t) ==
  /\ pc[t] = "swapped"
  /\ IF changed[t]
       THEN /\ nShowCursor' = nShowCursor + 1
            /\ displayCount' = ShowCursor(displayCount, ShowCursorArg(hidden[t]))
       ELSE UNCHANGED <<nShowCursor, displayCount>>
  /\ pc' = [pc EXCEPT ![t] = "idle"]
  /\ UNCHANGED <<HIDDEN, hidden, changed, callSeq, swapOrder>>

(* ====================== lazy_static capability table =================== *)

Symbols == {"GetDpiForWindow", "AdjustWindowRectExForDpi"}

\* "some": a function pointer, "none": absent
Outcomes == {"some", "none"}

InitCaps ==
  /\ cell = [s \in Symbols |-> [state |-> "uninit", value |-> "none"]]
  /\ libPresent \in BOOLEAN
  /\ symPresent \in [Symbols -> BOOLEAN]
  /\ cpc = [t \in Threads |-> <<"idle">>]
  /\ loads = [s \in Symbols |-> 0]
  /\ seen = [s \in Symbols |-> {}]


\* a mutated once-check: a cell whose initializer is still running is initialized again
CanStartInitRacy(state) == state # "done"

\* Once::call_once: only the caller that finds the cell untouched runs the initializer
CanStartInit(state) == state = "uninit"

\* the value of a static already resolved: the stored Option, never recomputed
Deref(s) == cell[s].value

\* first access of a lazy static: the caller claims the cell and enters get_function_impl
BeginInit(t, s) ==
  /\ cpc[t] = <<"idle">>
  /\ CanStartInit(cell[s].state)
  /\ loads[s] < MaxLoads
  /\ cell' = [cell EXCEPT ![s].state = "running"]
  /\ loads' = [loads EXCEPT ![s] = @ + 1]
  /\ cpc' = [cpc EXCEPT ![t] = <<"load", s>>]
  /\ UNCHANGED <<libPresent, symPresent, seen>>

\* the initializer returns `value`: the cell is written once and the caller sees it
FinishInit(t, s, value) ==
  /\ cell' = [cell EXCEPT ![s] = [state |-> "done", value |-> value]]
  /\ seen' = [seen EXCEPT ![s] = @ \cup {value}]
  /\ cpc' = [cpc EXCEPT ![t] = <<"idle">>]

\* let module = LoadLibraryA(library); if module.is_null() { return None; }
LoadLibraryStep(t) ==
  /\ cpc[t][1] = "load"
  /\ IF libPresent
       THEN /\ cpc' = [cpc EXCEPT ![t] = <<"getproc", cpc[t][2]>>]
            /\ UNCHANGED <<cell, seen>>
       ELSE FinishInit(t, cpc[t][2], "none")
  /\ UNCHANGED <<libPresent, symPresent, loads>>

\* let function_ptr = GetProcAddress(module, function); None if null, else Some
GetProcAddressStep(t) ==
  /\ cpc[t][1] = "getproc"
  /\ FinishInit(t, cpc[t][2], IF symPresent[cpc[t][2]] THEN "some" ELSE "none")
  /\ UNCHANGED <<libPresent, symPresent, loads>>

\* an access that finds the cell being initialized by another thread blocks
BeginWait(t, s) ==
  /\ cpc[t] = <<"idle">>
  /\ cell[s].state = "running"
  /\ cpc' = [cpc EXCEPT ![t] = <<"wait", s>>]
  /\ UNCHANGED <<cell, libPresent, symPresent, loads, seen>>

\* the blocked access resumes once the cell is written and reads it
EndWait(t) ==
  /\ cpc[t][1] = "wait"
  /\ cell[cpc[t][2]].state = "done"
  /\ seen' = [seen EXCEPT ![cpc[t][2]] = @ \cup {Deref(cpc[t][2])}]
  /\ cpc' = [cpc EXCEPT ![t] = <<"idle">>]
  /\ UNCHANGED <<cell, libPresent, symPresent, loads>>

\* a later access: *GET_DPI_FOR_WINDOW on a resolved cell
AccessResolved(t, s) ==
  /\ cpc[t] = <<"idle">>
  /\ cell[s].state = "done"
  /\ seen' = [seen EXCEPT ![s] = @ \cup {Deref(s)}]
  /\ UNCHANGED <<cell, libPresent, symPresent, cpc, loads>>

\* the environment changes: the library or a symbol appears or disappears
EnvChange ==
  /\ \/ /\ libPresent' = ~libPresent
        /\ UNCHANGED symPresent
     \/ /\ \E s \in Symbols : symPresent' = [symPresent EXCEPT ![s] = ~@]
        /\ UNCHANGED libPresent
  /\ UNCHANGED <<cell, cpc, loads, seen>>

(* ============================== geometry =============================== *)

\* the largest LONG (i32); `as LONG` and `as u32` wrap around it
LONG_MAX == 2147483647

\* u32 as LONG
AsLONG(u) == IF u <= LONG_MAX THEN u ELSE (u - LONG_MAX) - LONG_MAX - 2

\* LONG as u32 (the `as _` of PhysicalSize::new)
AsU32(l) == IF l >= 0 THEN l ELSE (l + LONG_MAX) + LONG_MAX + 2

\* i32::abs
Abs(x) == IF x >= 0 THEN x ELSE 0 - x

Rect(l, t, r, b) == [left |-> l, top |-> t, right |-> r, bottom |-> b]

ClientSizes == ((0..MaxSize) \X (0..MaxSize)) \cup {<<800, 600>>}
Dpis == {96, 192}
Styles == [border : 0..MaxBorder, title : 0..MaxTitle]

\* the cells of the capability table after both have been resolved, with any outcome
ResolvedCells == [Symbols -> [state : {"done"}, value : Outcomes]]

InitGeometry ==
  /\ hasMenu \in BOOLEAN
  /\ style \in Styles
  /\ dpi \in Dpis
  /\ winSize = <<0, 0>>
  /\ panicked = FALSE
  /\ last = [op |-> "none"]

\* pixels at 96 dpi scaled to dpi d
Scale(x, d) == (x * d) \div 96

\* height of the menu bar the adjustment adds above the client area when bMenu is set
MenuBar(bMenu, d) == IF bMenu THEN Scale(20, d) ELSE 0

\* winuser::AdjustWindowRectEx: the window rectangle for client rectangle r at system dpi
AdjustWindowRectEx(r, st, bMenu) ==
  Rect(r.left - st.border, r.top - st.title - MenuBar(bMenu, 96),
       r.right + st.border, r.bottom + st.border)

\* AdjustWindowRectExForDpi: the same with the chrome scaled to dpi d
AdjustWindowRectExForDpi(r, st, bMenu, d) ==
  Rect(r.left - Scale(st.border, d), r.top - Scale(st.title, d) - MenuBar(bMenu, d),
       r.right + Scale(st.border, d), r.bottom + Scale(st.border, d))

\* status_map: Some(data) when the native call returned non-zero, else None
status_map(ok, data) == IF ok THEN Some(data) ELSE None

\* a mutated test: the DPI-aware path is taken when the adjustment alone is present
UseDpiAwareAdjustOnly(getDpi, adjustForDpi) == adjustForDpi = "some"

\* if let (Some(get_dpi_for_window), Some(adjust_window_rect_ex_for_dpi)) = (..)
UseDpiAware(getDpi, adjustForDpi) == getDpi = "some" /\ adjustForDpi = "some"

\* adjust_window_rect_with_styles(hwnd, style, style_ex, rect); ok is whether the
\* native adjustment reports success.  The result and the native calls made.
adjust_window_rect_with_styles(rect, ok) ==
  LET b_menu == hasMenu
  IN  IF UseDpiAware(Deref("GetDpiForWindow"), Deref("AdjustWindowRectExForDpi"))
        THEN [res |-> status_map(ok, AdjustWindowRectExForDpi(rect, style, b_menu, dpi)),
              calls |-> <<"GetMenu", "GetDpiForWindow", "AdjustWindowRectExForDpi">>,
              bMenu |-> b_menu,
              dpiArg |-> Some(dpi)]
        ELSE [res |-> status_map(ok, AdjustWindowRectEx(rect, style, b_menu)),
              calls |-> <<"GetMenu", "AdjustWindowRectEx">>,
              bMenu |-> b_menu,
              dpiArg |-> None]

\* adjust_window_rect: reads the style and extended style, then adjusts with them
adjust_window_rect(rect, ok) ==
  LET a == adjust_window_rect_with_styles(rect, ok)
  IN  [a EXCEPT !.calls = <<"GetWindowLongW", "GetWindowLongW">> \o @]

\* a mutated fallback: the zeroed buffer of status_map stands in for the result
UnwrapOrZeroed(opt, default) == IF opt = None THEN Rect(0, 0, 0, 0) ELSE opt[1]

\* Option::unwrap_or
UnwrapOr(opt, default) == IF opt = None THEN default ELSE opt[1]

\* a mutated span: the far edges alone, as if the origin had stayed at (0, 0)
SpanFromOrigin(r) == <<AsU32(r.right), AsU32(r.bottom)>>

\* PhysicalSize::new((rect.right - rect.left) as _, (rect.bottom - rect.top) as _)
Span(r) == <<AsU32(r.right - r.left), AsU32(r.bottom - r.top)>>

\* adjust_size(hwnd, size)
AdjustSize(w, h, ok) ==
  /\ ~panicked
  /\ LET rect == Rect(0, 0, AsLONG(w), AsLONG(h))
         a == adjust_window_rect(rect, ok)
         r == UnwrapOr(a.res, rect)
     IN  last' = [op |-> "adjust_size", w |-> w, h |-> h, ok |-> ok,
                  calls |-> a.calls, bMenu |-> a.bMenu, dpiArg |-> a.dpiArg,
                  adjusted |-> a.res, result |-> Some(Span(r)), before |-> winSize]
  /\ UNCHANGED <<hasMenu, style, dpi, winSize, panicked>>

\* a mutated resize: on failure the unadjusted client size is applied
SetInnerSizeFallback(x, y, ok) ==
  /\ ~panicked
  /\ LET rect == Rect(0, 0, AsLONG(x), AsLONG(y))
         a == adjust_window_rect(rect, ok)
         r == UnwrapOr(a.res, rect)
         outer == <<Abs(r.right - r.left), Abs(r.top - r.bottom)>>
     IN  /\ winSize' = outer
         /\ panicked' = FALSE
         /\ last' = [op |-> "set_inner_size_physical", w |-> x, h |-> y, ok |-> ok,
                     calls |-> a.calls \o <<"SetWindowPos", "InvalidateRgn">>,
                     bMenu |-> a.bMenu, dpiArg |-> a.dpiArg,
                     adjusted |-> a.res, result |-> None, before |-> winSize]
  /\ UNCHANGED <<hasMenu, style, dpi>>

\* set_inner_size_physical(window, x, y): .expect("adjust_window_rect failed") panics
\* on None; otherwise SetWindowPos (size only, SWP_NOMOVE) and InvalidateRgn
SetInnerSizePhysical(x, y, ok) ==
  /\ ~panicked
  /\ LET rect == Rect(0, 0, AsLONG(x), AsLONG(y))
         a == adjust_window_rect(rect, ok)
     IN  IF a.res = None
           THEN /\ panicked' = TRUE
                /\ winSize' = winSize
                /\ last' = [op |-> "set_inner_size_physical", w |-> x, h |-> y, ok |-> ok,
                            calls |-> a.calls, bMenu |-> a.bMenu, dpiArg |-> a.dpiArg,
                            adjusted |-> a.res, result |-> None, before |-> winSize]
           ELSE LET r == a.res[1]
                    outer == <<Abs(r.right - r.left), Abs(r.top - r.bottom)>>
                IN  /\ panicked' = FALSE
                    /\ winSize' = outer
                    /\ last' = [op |-> "set_inner_size_physical", w |-> x, h |-> y,
                                ok |-> ok,
                                calls |-> a.calls \o <<"SetWindowPos", "InvalidateRgn">>,
                                bMenu |-> a.bMenu, dpiArg |-> a.dpiArg,
                                adjusted |-> a.res, result |-> None, before |-> winSize]
  /\ UNCHANGED <<hasMenu, style, dpi>>

(* ============================= show state ============================== *)

InitShow ==
  /\ visible \in [Windows -> BOOLEAN]
  /\ showCmd = [w \in Windows |-> "SW_SHOWNORMAL"]
  /\ restoreMax = [w \in Windows |-> FALSE]

\* is_visible / IsWindowVisible(window) != 0
IsWindowVisible(window) == visible[window]

\* is_maximized: GetWindowPlacement, then placement.showCmd == SW_MAXIMIZE
is_maximized(window) == showCmd[window] = "SW_MAXIMIZE"

\* winuser::ShowWindow(window, SW_MAXIMIZE | SW_RESTORE): the show state afterwards.
\* Restoring a window minimized while maximized brings it back maximized.
ShowWindow(window, cmd) ==
  /\ visible' = [visible EXCEPT ![window] = TRUE]
  /\ restoreMax' = [restoreMax EXCEPT ![window] = FALSE]
  /\ showCmd' = [showCmd EXCEPT ![window] =
                   IF cmd = "SW_MAXIMIZE" THEN "SW_MAXIMIZE"
                   ELSE IF showCmd[window] = "SW_SHOWMINIMIZED" /\ restoreMax[window]
                          THEN "SW_MAXIMIZE"
                          ELSE "SW_SHOWNORMAL"]

\* match maximized { true => SW_MAXIMIZE, false => SW_RESTORE }
ShowCommand(maximized) == IF maximized THEN "SW_MAXIMIZE" ELSE "SW_RESTORE"

\* a mutated set_maximized: the show command is issued whether or not the window is visible
SetMaximizedUnguarded(window, maximized) ==
  /\ ShowWindow(window, ShowCommand(maximized))
  /\ last' = [op |-> "set_maximized", window |-> window, maximized |-> maximized,
              calls |-> <<ShowCommand(maximized)>>,
              before |-> [visible |-> IsWindowVisible(window),
                          maximized |-> is_maximized(window)]]

\* set_maximized(window, maximized)
SetMaximized(window, maximized) ==
  /\ IF IsWindowVisible(window)
       THEN ShowWindow(window, ShowCommand(maximized))
       ELSE UNCHANGED <<visible, showCmd, restoreMax>>
  /\ last' = [op |-> "set_maximized", window |-> window, maximized |-> maximized,
              calls |-> IF IsWindowVisible(window)
                          THEN <<ShowCommand(maximized)>> ELSE <<>>,
              before |-> [visible |-> IsWindowVisible(window),
                          maximized |-> is_maximized(window)]]

\* the window's owner shows or hides it
OwnerShowHide(window) ==
  /\ visible' = [visible EXCEPT ![window] = ~@]
  /\ UNCHANGED <<showCmd, restoreMax>>
  /\ last' = [op |-> "show_hide", window |-> window]

\* the user minimizes a visible window
UserMinimize(window) ==
  /\ visible[window]
  /\ showCmd[window] # "SW_SHOWMINIMIZED"
  /\ restoreMax' = [restoreMax EXCEPT ![window] = (showCmd[window] = "SW_MAXIMIZE")]
  /\ showCmd' = [showCmd EXCEPT ![window] = "SW_SHOWMINIMIZED"]
  /\ UNCHANGED visible
  /\ last' = [op |-> "minimize", window |-> window]

(* ============================= icon decoder ============================ *)

IconSizes == {16, 32, 48}

InitIcon == icon = [op |-> "none"]

\* a mutated match: no offset counts as "not found"
LookupFailedNever(offset) == FALSE

\* match LookupIconIdFromDirectoryEx(..) as isize { 0 => None, offset => .. }
LookupFailed(offset) == offset = 0

\* get_hicon_from_buffer(buffer, width, height) on a buffer of len bytes; offset is
\* what LookupIconIdFromDirectoryEx returns and hicon what CreateIconFromResourceEx
\* would return (0 is the null handle)
GetHiconFromBuffer(len, width, height, offset, hicon) ==
  icon' = IF LookupFailed(offset)
            THEN [op |-> "get_hicon_from_buffer", len |-> len, width |-> width,
                  height |-> height, offset |-> offset, hicon |-> 0,
                  calls |-> <<"LookupIconIdFromDirectoryEx">>,
                  result |-> None]
            ELSE [op |-> "get_hicon_from_buffer", len |-> len, width |-> width,
                  height |-> height, offset |-> offset, hicon |-> hicon,
                  calls |-> <<"LookupIconIdFromDirectoryEx", "CreateIconFromResourceEx">>,
                  result |-> IF hicon = 0 THEN None ELSE Some(hicon)]

(* =========================== specifications ============================ *)

\* the components a specification does not exercise rest in one fixed state
RestCaps ==
  /\ libPresent = TRUE
  /\ symPresent = [s \in Symbols |-> TRUE]
  /\ cpc = [t \in Threads |-> <<"idle">>]
  /\ loads = [s \in Symbols |-> 0]
  /\ seen = [s \in Symbols |-> {}]

RestCells == cell = [s \in Symbols |-> [state |-> "uninit", value |-> "none"]]

RestGeometry ==
  /\ hasMenu = FALSE
  /\ style = [border |-> 0, title |-> 0]
  /\ dpi = 96
  /\ winSize = <<0, 0>>
  /\ panicked = FALSE

RestLast == last = [op |-> "none"]

RestShow ==
  /\ visible = [w \in Windows |-> FALSE]
  /\ showCmd = [w \in Windows |-> "SW_SHOWNORMAL"]
  /\ restoreMax = [w \in Windows |-> FALSE]

\* set_cursor_hidden called from one thread, one call after another
NextCursorSeq ==
  \/ \E b \in BOOLEAN : CallSetCursorHidden(1, b) /\ UNCHANGED <<capVars, geomVars, showVars, icon>>
  \/ Swap(1) /\ UNCHANGED <<capVars, geomVars, showVars, icon>>
  \/ ShowAndReturn(1) /\ UNCHANGED <<capVars, geomVars, showVars, icon>>

InitCursorSeqSpec ==
  InitCursor /\ RestCells /\ RestCaps /\ RestGeometry /\ RestLast /\ RestShow /\ InitIcon

SpecCursorSeq ==
  /\ InitCursorSeqSpec
  /\ [][NextCursorSeq]_vars

\* set_cursor_hidden called from several threads
NextCursor ==
  \/ \E t \in Threads, b \in BOOLEAN :
       CallSetCursorHidden(t, b) /\ UNCHANGED <<capVars, geomVars, showVars, icon>>
  \/ \E t \in Threads : Swap(t) /\ UNCHANGED <<capVars, geomVars, showVars, icon>>
  \/ \E t \in Threads : ShowAndReturn(t) /\ UNCHANGED <<capVars, geomVars, showVars, icon>>

InitCursorSpec ==
  InitCursor /\ RestCells /\ RestCaps /\ RestGeometry /\ RestLast /\ RestShow /\ InitIcon

SpecCursor ==
  /\ InitCursorSpec
  /\ [][NextCursor]_vars

\* the lazy statics accessed from several threads while the environment changes
NextCaps ==
  \/ \E t \in Threads, s \in Symbols :
       BeginInit(t, s) /\ UNCHANGED <<cursorVars, geomVars, showVars, icon>>
  \/ \E t \in Threads : LoadLibraryStep(t) /\ UNCHANGED <<cursorVars, geomVars, showVars, icon>>
  \/ \E t \in Threads : GetProcAddressStep(t) /\ UNCHANGED <<cursorVars, geomVars, showVars, icon>>
  \/ \E t \in Threads, s \in Symbols :
       BeginWait(t, s) /\ UNCHANGED <<cursorVars, geomVars, showVars, icon>>
  \/ \E t \in Threads : EndWait(t) /\ UNCHANGED <<cursorVars, geomVars, showVars, icon>>
  \/ \E t \in Threads, s \in Symbols :
       AccessResolved(t, s) /\ UNCHANGED <<cursorVars, geomVars, showVars, icon>>
  \/ EnvChange /\ UNCHANGED <<cursorVars, geomVars, showVars, icon>>

InitCapsSpec ==
  InitCursor /\ InitCaps /\ RestGeometry /\ RestLast /\ RestShow /\ InitIcon

SpecCaps ==
  /\ InitCapsSpec
  /\ [][NextCaps]_vars

\* the geometry operations on one window, the capability table already resolved
NextGeometry ==
  \/ \E size \in ClientSizes, ok \in BOOLEAN :
       AdjustSize(size[1], size[2], ok) /\ UNCHANGED <<cursorVars, capVars, showVars, icon>>
  \/ \E size \in ClientSizes, ok \in BOOLEAN :
       SetInnerSizePhysical(size[1], size[2], ok) /\ UNCHANGED <<cursorVars, capVars, showVars, icon>>

InitGeometrySpec ==
  InitCursor /\ cell \in ResolvedCells /\ RestCaps /\ InitGeometry /\ RestShow /\ InitIcon

SpecGeometry ==
  /\ InitGeometrySpec
  /\ [][NextGeometry]_vars

\* maximize and restore on windows that are shown, hidden and minimized meanwhile
NextShow ==
  \/ \E w \in Windows, m \in BOOLEAN :
       SetMaximized(w, m)
       /\ UNCHANGED <<cursorVars, capVars, hasMenu, style, dpi, winSize, panicked, icon>>
  \/ \E w \in Windows :
       OwnerShowHide(w)
       /\ UNCHANGED <<cursorVars, capVars, hasMenu, style, dpi, winSize, panicked, icon>>
  \/ \E w \in Windows :
       UserMinimize(w)
       /\ UNCHANGED <<cursorVars, capVars, hasMenu, style, dpi, winSize, panicked, icon>>

InitShowSpec ==
  InitCursor /\ RestCells /\ RestCaps /\ RestGeometry /\ RestLast /\ InitShow /\ InitIcon

SpecShow ==
  /\ InitShowSpec
  /\ [][NextShow]_vars

\* get_hicon_from_buffer on any buffer, with any answers of the two native steps
NextIcon ==
  \E len \in 0..MaxBufLen, width \in IconSizes, height \in IconSizes,
     offset \in 0..MaxOffset, hicon \in 0..1 :
       GetHiconFromBuffer(len, width, height, offset, hicon)
       /\ UNCHANGED <<cursorVars, capVars, geomVars, showVars>>

InitIconSpec ==
  InitCursor /\ RestCells /\ RestCaps /\ RestGeometry /\ RestLast /\ RestShow /\ InitIcon

SpecIcon ==
  /\ InitIconSpec
  /\ [][NextIcon]_vars

(* =============================== claims ================================ *)

\* the number of value changes in a sequence of flag values that starts from false
Changes(seq) ==
  Cardinality({i \in 1..Len(seq) : seq[i] # (IF i = 1 THEN FALSE ELSE seq[i - 1])})

\* calls whose swap found a change and whose ShowCursor has not been issued yet
PendingShow == Cardinality({t \in Threads : pc[t] = "swapped" /\ changed[t]})

Quiescent == \A t \in Threads : pc[t] = "idle"

\* C1: with the calls made one after another from the initial flag false, whenever
\* no call is in flight the number of ShowCursor invocations is the number of value
\* changes in the sequence of arguments, not its length.
C1_InvocationsEqualChanges ==
  pc[1] = "idle" => nShowCursor = Changes(callSeq)

\* C1 witness: hide, hide, hide, show has been called and gave 2 invocations
C1_Witness ==
  /\ pc[1] = "idle"
  /\ callSeq = <<TRUE, TRUE, TRUE, FALSE>>
  /\ nShowCursor = 2

\* C2: under any interleaving, the ShowCursor invocations issued plus those still
\* owed by calls past their swap equal the number of value changes in the order the
\* swaps took effect; once no call is in flight the invocations equal the changes.
C2_OneInvocationPerChange ==
  nShowCursor + PendingShow = Changes(swapOrder)

\* C2 witness: two calls with the same argument are in flight at once, past their
\* swaps, on a flag that differed from it, and only one of them saw a change
C2_Witness ==
  \E t1, t2 \in Threads :
    /\ t1 # t2
    /\ pc[t1] = "swapped" /\ pc[t2] = "swapped"
    /\ hidden[t1] = hidden[t2]
    /\ changed[t1] /\ ~changed[t2]
    /\ nShowCursor + 1 = Changes(swapOrder)

\* C3: whenever no set_cursor_hidden call is in flight, the OS display counter is
\* -1 if the flag is hidden and 0 if it is not.
C3_CounterMatchesFlag ==
  Quiescent => displayCount = (IF HIDDEN THEN 0 - 1 ELSE 0)

\* C3 witness: all calls have returned after swaps that took effect in another order
\* than the calls were made, leaving the cursor hidden
C3_Witness ==
  /\ Quiescent
  /\ HIDDEN
  /\ displayCount = 0 - 1
  /\ nShowCursor >= 3
  /\ swapOrder # callSeq

\* C4: for every symbol, get_function_impl runs at most once, every access observes
\* the one stored outcome, and that outcome is the same for all of them, whatever the
\* environment has become since.
C4_ResolvedAtMostOnce ==
  \A s \in Symbols :
    /\ loads[s] <= 1
    /\ Cardinality(seen[s]) <= 1
    /\ seen[s] # {} => (cell[s].state = "done" /\ seen[s] = {cell[s].value})

\* C4 witness: a symbol resolved as absent stays absent although the library and the
\* symbol are now present, while another thread is blocked on the other symbol's
\* first use
C4_Witness ==
  \E s \in Symbols, t \in Threads :
    /\ cell[s] = [state |-> "done", value |-> "none"]
    /\ libPresent /\ symPresent[s]
    /\ seen[s] = {"none"}
    /\ loads[s] = 1
    /\ cpc[t][1] = "wait"

GeometryOpDone == last.op \in {"adjust_size", "set_inner_size_physical"}

CallsMade(name) == \E i \in 1..Len(last.calls) : last.calls[i] = name

BothResolved == Deref("GetDpiForWindow") = "some" /\ Deref("AdjustWindowRectExForDpi") = "some"

\* C5 as stated: the DPI-aware path is taken exactly when the capability is
\* available and the window has a menu.
C5_Original ==
  GeometryOpDone =>
    (CallsMade("AdjustWindowRectExForDpi") <=> (BothResolved /\ hasMenu))

\* C5 amended: the DPI-aware path (GetDpiForWindow, then AdjustWindowRectExForDpi
\* with the has-menu flag and that DPI) is taken exactly when both entry points are
\* resolved, with or without a menu; otherwise AdjustWindowRectEx is called.  Menu
\* presence only sets the has-menu flag.
C5_DpiPathIffBothResolved ==
  GeometryOpDone =>
    /\ CallsMade("AdjustWindowRectExForDpi") <=> BothResolved
    /\ CallsMade("GetDpiForWindow") <=> BothResolved
    /\ CallsMade("AdjustWindowRectEx") <=> ~BothResolved
    /\ last.dpiArg = (IF BothResolved THEN Some(dpi) ELSE None)
    /\ last.bMenu = hasMenu

\* C5 witness: the DPI-aware path was taken on a window without a menu
C5_Witness ==
  /\ GeometryOpDone
  /\ BothResolved
  /\ ~hasMenu
  /\ CallsMade("AdjustWindowRectExForDpi")
  /\ last.bMenu = FALSE

\* C6: set_maximized on a window that is not visible issues no show command and
\* leaves is_maximized as it was; on a visible window it issues exactly one show
\* command, SW_MAXIMIZE when maximized is true and SW_RESTORE when it is false.
C6_SetMaximizedOnlyWhenVisible ==
  last.op = "set_maximized" =>
    IF last.before.visible
      THEN last.calls = <<IF last.maximized THEN "SW_MAXIMIZE" ELSE "SW_RESTORE">>
      ELSE /\ last.calls = <<>>
           /\ is_maximized(last.window) = last.before.maximized

\* C6 witness: set_maximized(true) on a hidden window that was not maximized
C6_Witness ==
  /\ last.op = "set_maximized"
  /\ last.maximized
  /\ ~last.before.visible
  /\ ~last.before.maximized
  /\ ~is_maximized(last.window)

\* C7: when the native adjustment fails, adjust_window_rect returns None and
\* adjust_size returns the requested client size (w, h) without failing.
C7_AdjustSizeFallsBack ==
  (last.op = "adjust_size" /\ ~last.ok) =>
    /\ last.adjusted = None
    /\ last.result = Some(<<last.w, last.h>>)
    /\ ~panicked

\* C7 witness: the adjustment failed for (800, 600) on a window with chrome
C7_Witness ==
  /\ last.op = "adjust_size"
  /\ ~last.ok
  /\ last.w = 800 /\ last.h = 600
  /\ style.border > 0 /\ style.title > 0
  /\ last.result = Some(<<800, 600>>)

\* C8: when the adjusted rectangle cannot be computed, set_inner_size_physical
\* panics, issues neither SetWindowPos nor InvalidateRgn and leaves the window's
\* size as it was; a panic has no other cause.
C8_ResizePanicsOnFailure ==
  /\ (last.op = "set_inner_size_physical" /\ ~last.ok) =>
       /\ panicked
       /\ last.adjusted = None
       /\ ~CallsMade("SetWindowPos")
       /\ ~CallsMade("InvalidateRgn")
       /\ winSize = last.before
  /\ panicked => (last.op = "set_inner_size_physical" /\ ~last.ok)

\* C8 witness: a resize to (800, 600) panicked on a window resized before
C8_Witness ==
  /\ panicked
  /\ last.w = 800 /\ last.h = 600
  /\ winSize # <<0, 0>>
  /\ winSize # <<800, 600>>

IconCallCount(name) == Cardinality({i \in 1..Len(icon.calls) : icon.calls[i] = name})

\* C9: get_hicon_from_buffer returns absent without attempting the creation when the
\* lookup reports offset 0, absent when the creation returns null, a handle only when
\* both steps succeed, and invokes each native step at most once.
C9_IconSingleAttempt ==
  icon.op = "get_hicon_from_buffer" =>
    /\ icon.offset = 0 =>
         (icon.result = None /\ icon.calls = <<"LookupIconIdFromDirectoryEx">>)
    /\ (icon.offset # 0 /\ icon.hicon = 0) => icon.result = None
    /\ icon.result # None <=> (icon.offset # 0 /\ icon.hicon # 0)
    /\ icon.result # None => icon.result = Some(icon.hicon)
    /\ IconCallCount("LookupIconIdFromDirectoryEx") = 1
    /\ IconCallCount("CreateIconFromResourceEx") = (IF icon.offset = 0 THEN 0 ELSE 1)

\* C9 witness: the lookup found nothing in an empty buffer
C9_Witness ==
  /\ icon.op = "get_hicon_from_buffer"
  /\ icon.len = 0
  /\ icon.offset = 0
  /\ icon.result = None
  /\ IconCallCount("CreateIconFromResourceEx") = 0

\* C10: on the legacy path, for a window without a menu whose chrome is a border of
\* B on the left, right and bottom and a title bar of T on top, adjust_size of a
\* client size (w, h), w, h > 0, returns (w + 2B, h + B + T); subtracting the insets
\* gives (w, h) back.
C10_LegacyOuterSize ==
  (/\ last.op = "adjust_size"
   /\ last.ok
   /\ CallsMade("AdjustWindowRectEx")
   /\ ~hasMenu
   /\ last.w > 0 /\ last.h > 0) =>
    /\ last.result = Some(<<last.w + 2 * style.border,
                            last.h + style.border + style.title>>)
    /\ last.result[1][1] - 2 * style.border = last.w
    /\ last.result[1][2] - style.border - style.title = last.h

\* C10 witness: (800, 600) with B = 1 and T = 2 gave (802, 603)
C10_Witness ==
  /\ last.op = "adjust_size"
  /\ last.ok
  /\ CallsMade("AdjustWindowRectEx")
  /\ ~hasMenu
  /\ style = [border |-> 1, title |-> 2]
  /\ last.w = 800 /\ last.h = 600
  /\ last.result = Some(<<802, 603>>)

=============================================================================
